---- MODULE Spec2Model ----
(***************************************************************************)
(* Model of the OTP password-recovery plugin (otp/graphql/mutations.py).   *)
(*                                                                         *)
(* Two mutations are exposed by the schema: RequestPasswordRecovery, which *)
(* creates an OTP row and notifies the user, and SetPasswordByCode, which  *)
(* validates an OTP, stores the new password, marks the OTP used and then  *)
(* runs the inherited CreateTokenExtended.perform_mutation.                *)
(*                                                                         *)
(* Spec      runs every mutation as one atomic request (sequential use).   *)
(* ConcSpec  runs SetPasswordByCode requests as interleaved database       *)
(*           steps.                                                        *)
(* FaultSpec is Spec with a clock that stands still and with statements of *)
(*           SetPasswordByCode that may raise.                             *)
(* UrlSpec   runs RequestPasswordRecovery on redirect URLs of every shape. *)
(***************************************************************************)
EXTENDS Integers, Sequences, FiniteSets, TLC

VARIABLES
    users,      \* User table: email -> row (password, last_login, flags)
    otps,       \* OTP table, in insertion order: rows (code, user, issued_at, is_used)
    now,        \* timezone.now(), in minutes
    notified,   \* calls of manager.notify, in order
    events,     \* customer_password_reset_event rows: how many each user has
    response,   \* the mutation just served: its arguments and what it returns
    inv         \* the in-flight SetPasswordByCode requests of ConcSpec

vars == <<users, otps, now, notified, events, response, inv>>

----------------------------------------------------------------------------
(* Bounds of the model *)

MaxOTPs == 2
MaxTime == 20

(* timedelta(minutes=15) of handle_expired_otp *)
ValidityMinutes == 15

(* The clock is read in steps of a third of the validity window *)
TickMinutes == ValidityMinutes \div 3

----------------------------------------------------------------------------
(* Values *)

None == "None"

UserEmails == {"a@shop", "b@shop"}
Emails == UserEmails \cup {"nobody@shop"}
(* The codes the store hands out: opaque strings, MaxOTPs of them *)
Codes == { ToString(n) : n \in 1..MaxOTPs }
OldPassword == "old-password"
GoodPasswords == {"NewP@ssw0rd1", "NewP@ssw0rd2"}
Passwords == GoodPasswords \cup {"123"}
Channels == {"main"}
ChannelArgs == {None, "main", "bogus"}
AllowedHosts == {"shop.example"}

(* The two SetPasswordByCode requests that are served at the same time *)
Requests == {"first", "second"}

(* The text of a URL: its delimiters and the pieces of text between them *)
Url(scheme, host, path, query, fragment) ==
    scheme \o <<"//", host>> \o path \o query \o fragment

(* The redirect URLs the requests of Spec are made with: one of the        *)
(* storefront, with a query and a fragment of its own, and one of a host   *)
(* that is not allowed                                                     *)
RedirectUrls ==
    { Url(<<"https", ":">>, "shop.example", <<"/", "reset">>,
          <<"?", "ref", "=", "mail">>, <<"#", "form">>),
      Url(<<"https", ":">>, "evil.example", <<"/", "reset">>, <<>>, <<>>) }

(* The redirect URLs of UrlSpec: every shape of scheme, path, query and    *)
(* fragment, on the storefront's host and on one that is not allowed       *)
UrlSchemes == { <<"https", ":">>, <<"HTTPS", ":">>, <<>> }
UrlPaths == { <<>>, <<"/", "reset">> }
UrlQueries == { <<>>, <<"?">>, <<"?", "ref", "=", "mail">> }
UrlFragments == { <<>>, <<"#">>, <<"#", "form">>, <<"#", "form", "?", "x">> }

UrlTexts ==
    { Url(s, h, p, q, f) :
        s \in UrlSchemes, h \in {"shop.example", "evil.example"},
        p \in UrlPaths, q \in UrlQueries, f \in UrlFragments }

(* A django ValidationError as the mutation's error list shows it: the     *)
(* field it is keyed under (None for a non-field error), message and code. *)
Error(field, message, code) ==
    [field |-> field, message |-> message, code |-> code]

NoErrors == <<>>
NoToken == <<>>
NoTokens == [token |-> NoToken, refresh_token |-> NoToken, csrf_token |-> NoToken]

(* No mutation is being answered *)
NoResponse ==
    [op |-> "none", data |-> [email |-> None], errors |-> NoErrors,
     tokens |-> NoTokens]

----------------------------------------------------------------------------
(* Collaborators of saleor and django the mutations call *)

(* dict.get(key, default) on the mutation's keyword arguments *)
Get(data, key, default) ==
    IF key \in DOMAIN data THEN data[key] ELSE default

(* saleor.graphql.channel.utils.validate_channel: the channel of that slug *)
validate_channel(channel) ==
    IF channel \in Channels
    THEN [errors |-> NoErrors, slug |-> channel]
    ELSE [errors |-> <<Error("channel", "Can't resolve channel", "NOT_FOUND")>>,
          slug |-> None]

(* saleor.graphql.channel.utils.clean_channel: the channel of a given slug, *)
(* or the only channel there is when the slug is None                       *)
clean_channel(channel) ==
    IF channel # None
    THEN validate_channel(channel)
    ELSE IF Cardinality(Channels) = 1
         THEN [errors |-> NoErrors, slug |-> CHOOSE c \in Channels : TRUE]
         ELSE [errors |-> <<Error("channel", "You need to provide channel slug.",
                                  "MISSING_CHANNEL_SLUG")>>,
               slug |-> None]

(* The first position of s that holds one of the delimiters D, or the     *)
(* position after the end of s when none does (str.find, str.split)        *)
Find(s, D) ==
    IF \E i \in DOMAIN s : s[i] \in D
    THEN CHOOSE i \in DOMAIN s :
            s[i] \in D /\ \A j \in 1..(i - 1) : s[j] \notin D
    ELSE Len(s) + 1

(* str.lower() of a scheme *)
Lower(text) == IF text = "HTTPS" THEN "https" ELSE text

(* urllib.parse.urlparse: the scheme before the first ":", lowered; the    *)
(* netloc after "//" up to the first of "/", "?" and "#"; the fragment     *)
(* after the first "#"; the query after the first "?" before it; the path  *)
(* is what remains                                                         *)
urlparse(url) ==
    LET has_scheme == Len(url) >= 2 /\ url[2] = ":"
                         /\ url[1] \notin {":", "//", "/", "?", "#"}
        rest1 == IF has_scheme THEN SubSeq(url, 3, Len(url)) ELSE url
        has_netloc == rest1 # <<>> /\ rest1[1] = "//"
        rest2 == IF has_netloc THEN Tail(rest1) ELSE rest1
        n == IF has_netloc THEN Find(rest2, {"/", "?", "#"}) ELSE 1
        rest3 == SubSeq(rest2, n, Len(rest2))
        f == Find(rest3, {"#"})
        rest4 == SubSeq(rest3, 1, f - 1)
        q == Find(rest4, {"?"})
    IN [scheme |-> IF has_scheme THEN Lower(url[1]) ELSE "",
        netloc |-> SubSeq(rest2, 1, n - 1),
        path |-> SubSeq(rest4, 1, q - 1),
        query |-> SubSeq(rest4, q + 1, Len(rest4)),
        fragment |-> SubSeq(rest3, f + 1, Len(rest3))]

(* The schemes of urllib.parse.uses_netloc that the model's URLs have *)
uses_netloc == {"https"}

(* ParseResult.geturl: urlunparse puts the components together again, and  *)
(* leaves out the "?" of an empty query and the "#" of an empty fragment   *)
geturl(parts) ==
    LET rooted == IF parts.path # <<>> /\ parts.path[1] # "/"
                  THEN <<"/">> \o parts.path
                  ELSE parts.path
        located == IF parts.netloc # <<>> \/ parts.scheme \in uses_netloc
                   THEN <<"//">> \o parts.netloc \o rooted
                   ELSE parts.path
        schemed == IF parts.scheme # ""
                   THEN <<parts.scheme, ":">> \o located
                   ELSE located
        queried == IF parts.query # <<>>
                   THEN schemed \o <<"?">> \o parts.query
                   ELSE schemed
    IN IF parts.fragment # <<>>
       THEN queried \o <<"#">> \o parts.fragment
       ELSE queried

(* saleor.core.utils.url.validate_storefront_url, and the re-raise under   *)
(* the redirect_url key: django drops the code given beside a dict, so the *)
(* error keeps the validator's own (absent) code                           *)
validate_storefront_url(redirect_url) ==
    LET netloc == urlparse(redirect_url).netloc IN
    IF netloc = <<>>
    THEN <<Error("redirect_url", "Invalid URL", None)>>
    ELSE IF Len(netloc) = 1 /\ netloc[1] \in AllowedHosts
         THEN NoErrors
         ELSE <<Error("redirect_url", "host is not allowed", None)>>

(* Variant: the policy is not consulted *)
validate_password_Skipped(password) == NoErrors

(* django's password_validation.validate_password, re-raised under the     *)
(* password key                                                            *)
validate_password(password) ==
    IF password \in GoodPasswords
    THEN NoErrors
    ELSE <<Error("password", "This password is too short.", "password_too_short")>>

(* saleor.core.jwt.create_access_token / create_refresh_token and django's *)
(* _get_new_csrf_token: tokens minted for the user                         *)
create_tokens(user) ==
    [token |-> <<"access", user>>,
     refresh_token |-> <<"refresh", user>>,
     csrf_token |-> <<"csrf", user>>]

----------------------------------------------------------------------------
(* The OTP model (otp/models.py): a new row, and the text of a row *)

NewOTP(code, user, t) ==
    [code |-> code, user |-> user, issued_at |-> t, is_used |-> FALSE]

OTPStr(otp) == otp.code

UsedCodes(O) == { O[i].code : i \in DOMAIN O }

(* The code of a new row: one that no row of the table has (codes are      *)
(* interchangeable, so the model takes the least)                          *)
FreshCode(O) ==
    LET free == { n \in 1..MaxOTPs : ToString(n) \notin UsedCodes(O) } IN
    ToString(CHOOSE n \in free : \A m \in free : n <= m)

(* urllib.parse.urlencode of a dict: key=value for each item, joined by    *)
(* "&" (the codes hold nothing that quote_plus would escape)               *)
RECURSIVE urlencode(_)
urlencode(pairs) ==
    IF pairs = <<>>
    THEN <<>>
    ELSE <<pairs[1][1], "=", pairs[1][2]>>
            \o (IF Len(pairs) > 1 THEN <<"&">> ELSE <<>>)
            \o urlencode(Tail(pairs))

(* Variant: the lookup filters on the code alone *)
FindOTP_AnyOwner(O, code, user) ==
    { i \in DOMAIN O : O[i].code = code }

(* OTP.objects.get(code=code, user=user): the rows that match both *)
FindOTP(O, code, user) ==
    { i \in DOMAIN O : O[i].code = code /\ O[i].user = user }

----------------------------------------------------------------------------
(* send_password_reset_notification *)

(* Variant: the code is added to the query the URL came with *)
ResetUrl_KeepingQuery(reset_url, otp) ==
    LET url_components == urlparse(reset_url) IN
    geturl([url_components EXCEPT
               !.query = IF @ = <<>>
                         THEN urlencode(<< <<"code", OTPStr(otp)>> >>)
                         ELSE @ \o <<"&">>
                                \o urlencode(<< <<"code", OTPStr(otp)>> >>)])

ResetUrl(reset_url, otp) ==
    LET url_components == urlparse(reset_url) IN
    geturl([url_components EXCEPT
               !.query = urlencode(<< <<"code", OTPStr(otp)>> >>)])

NotifyEvent(staff) ==
    IF staff THEN "ACCOUNT_STAFF_RESET_PASSWORD" ELSE "ACCOUNT_PASSWORD_RESET"

Notification(user, otp, channel_slug, staff, reset_url) ==
    [event |-> NotifyEvent(staff),
     payload |-> [recipient_email |-> user,
                  token |-> OTPStr(otp),
                  channel_slug |-> channel_slug,
                  reset_url |-> ResetUrl(reset_url, otp)],
     channel_slug |-> channel_slug]

(* Variant: a user who holds an unused OTP is sent that one again *)
send_password_reset_notification_ReusingOTP(user, channel_slug, staff, reset_url) ==
    LET held == { i \in DOMAIN otps : otps[i].user = user /\ ~otps[i].is_used } IN
    IF held # {}
    THEN /\ otps' = otps
         /\ notified' = Append(notified,
                               Notification(user, otps[CHOOSE i \in held : TRUE],
                                            channel_slug, staff, reset_url))
    ELSE LET otp == NewOTP(FreshCode(otps), user, now) IN
         /\ otps' = Append(otps, otp)
         /\ notified' = Append(notified,
                               Notification(user, otp, channel_slug, staff, reset_url))

send_password_reset_notification(user, channel_slug, staff, reset_url) ==
    LET otp == NewOTP(FreshCode(otps), user, now) IN
    /\ otps' = Append(otps, otp)
    /\ notified' = Append(notified,
                          Notification(user, otp, channel_slug, staff, reset_url))

----------------------------------------------------------------------------
(* RequestPasswordRecovery *)

clean_user(email) ==
    IF email \in DOMAIN users
    THEN [errors |-> NoErrors, user |-> email]
    ELSE [errors |-> <<Error("email", "User with this email doesn't exist",
                             "USER_NOT_FOUND")>>,
          user |-> None]

(* The channel slug perform_mutation resolves for the user *)
ResolveChannel(user, channel) ==
    IF ~users[user].is_staff
    THEN clean_channel(channel)
    ELSE IF channel # None
         THEN validate_channel(channel)
         ELSE [errors |-> NoErrors, slug |-> channel]

RecoveryResponse(data, errors) ==
    [op |-> "RequestPasswordRecovery", data |-> data, errors |-> errors,
     tokens |-> NoTokens]

RecoveryFails(data, errors) ==
    /\ response' = RecoveryResponse(data, errors)
    /\ UNCHANGED <<otps, notified>>

(* Variant: the OTP is created and sent before the redirect URL is checked *)
RequestPasswordRecovery_NotifyFirst(data) ==
    LET email == Get(data, "email", "")
        channel == Get(data, "channel", "")
        redirect_url == Get(data, "redirect_url", "")
        found == clean_user(email)
    IN
    /\ Len(otps) < MaxOTPs
    /\ IF found.errors # NoErrors
       THEN RecoveryFails(data, found.errors)
       ELSE LET user == found.user
                resolved == ResolveChannel(user, channel)
            IN
            IF resolved.errors # NoErrors
            THEN RecoveryFails(data, resolved.errors)
            ELSE /\ send_password_reset_notification(
                        user, resolved.slug, users[user].is_staff, redirect_url)
                 /\ response' = RecoveryResponse(
                                    data, validate_storefront_url(redirect_url))
    /\ UNCHANGED <<users, now, events, inv>>

RequestPasswordRecovery(data) ==
    LET email == Get(data, "email", "")
        channel == Get(data, "channel", "")
        redirect_url == Get(data, "redirect_url", "")
        found == clean_user(email)
    IN
    /\ Len(otps) < MaxOTPs
    /\ IF found.errors # NoErrors
       THEN RecoveryFails(data, found.errors)
       ELSE LET user == found.user
                resolved == ResolveChannel(user, channel)
            IN
            IF resolved.errors # NoErrors
            THEN RecoveryFails(data, resolved.errors)
            ELSE IF validate_storefront_url(redirect_url) # NoErrors
                 THEN RecoveryFails(data, validate_storefront_url(redirect_url))
                 ELSE /\ send_password_reset_notification(
                             user, resolved.slug, users[user].is_staff,
                             redirect_url)
                      /\ response' = RecoveryResponse(data, NoErrors)
    /\ UNCHANGED <<users, now, events, inv>>

(* The keyword arguments graphene passes: channel is optional and is left  *)
(* out of the dict when the caller does not give it                        *)
(* For the email of no account one call stands for all: clean_user fails   *)
(* before the other arguments are looked at                                *)
RecoveryArgs ==
    [email : UserEmails, redirect_url : RedirectUrls]
        \cup [email : UserEmails, redirect_url : RedirectUrls, channel : ChannelArgs]
        \cup [email : Emails \ UserEmails,
              redirect_url : {Url(<<"https", ":">>, "shop.example",
                                  <<"/", "reset">>, <<>>, <<>>)},
              channel : {None}]

----------------------------------------------------------------------------
(* SetPasswordByCode: the checks *)

InvalidOTPMessage == "Invalid or expired OTP supplied"

(* Variant: a used OTP is let through *)
handle_used_otp_Ignored(otp) == NoErrors

handle_used_otp(otp) ==
    IF otp.is_used
    THEN <<Error("code", InvalidOTPMessage, "INVALID")>>
    ELSE NoErrors

(* Variant: the age of the OTP is not looked at *)
handle_expired_otp_Ignored(otp, t) == NoErrors

(* Variant: the OTP is still accepted at issued_at + 15 minutes *)
handle_expired_otp_StrictlyAfter(otp, t) ==
    IF otp.issued_at + ValidityMinutes < t
    THEN <<Error("code", InvalidOTPMessage, "INVALID")>>
    ELSE NoErrors

(* Variant: an expired OTP is reported under a code of its own *)
handle_expired_otp_OwnCode(otp, t) ==
    IF otp.issued_at + ValidityMinutes <= t
    THEN <<Error("code", "OTP expired", "EXPIRED")>>
    ELSE NoErrors

handle_expired_otp(otp, t) ==
    IF otp.issued_at + ValidityMinutes <= t
    THEN <<Error("code", InvalidOTPMessage, "INVALID")>>
    ELSE NoErrors

get_user(email) ==
    IF email \in DOMAIN users
    THEN [errors |-> NoErrors, user |-> email]
    ELSE [errors |-> <<Error("email", "User doesn't exist", "USER_NOT_FOUND")>>,
          user |-> None]

(* Variant: line 123 resolves to the get_user of CreateTokenExtended,      *)
(* lines 88-119: the user of the credentials, unless the account is not    *)
(* active                                                                  *)
CreateTokenExtended_get_user(U, email, password) ==
    IF email \notin DOMAIN U \/ U[email].password # password
    THEN [errors |-> <<Error("email", "Please, enter valid credentials",
                             "USER_NOT_FOUND")>>,
          user |-> None]
    ELSE IF ~U[email].is_active /\ U[email].last_login = <<>>
    THEN [errors |-> <<Error("email", "Account needs to be confirmed via email.",
                             "USER_NOT_FOUND")>>,
          user |-> None]
    ELSE IF ~U[email].is_active
    THEN [errors |-> <<Error("email", "Account inactive.", "USER_NOT_FOUND")>>,
          user |-> None]
    ELSE [errors |-> NoErrors, user |-> email]

(* cls.get_user(info, data) of the inherited perform_mutation, line 123,   *)
(* on the user table U: cls is SetPasswordByCode, so this is the get_user  *)
(* above, which looks at the email alone                                   *)
cls_get_user(U, email, password) ==
    IF email \in DOMAIN U
    THEN get_user(email)
    ELSE [errors |-> <<Error("email", "User doesn't exist", "USER_NOT_FOUND")>>,
          user |-> None]

(* The errors validate_otp raises on the table O at time t; the lookup     *)
(* raises a ValidationError that is keyed under no field                   *)
validate_otp(O, user, code, t) ==
    LET found == FindOTP(O, code, user) IN
    IF found = {}
    THEN <<Error(None, InvalidOTPMessage, "INVALID")>>
    ELSE LET otp == O[CHOOSE i \in found : TRUE] IN
         IF handle_used_otp(otp) # NoErrors
         THEN handle_used_otp(otp)
         ELSE handle_expired_otp(otp, t)

(* Lines 272-278 of _set_password_for_user: what stops the request before  *)
(* anything is written                                                     *)
CheckOTPAndPassword(O, user, code, password, t) ==
    IF validate_otp(O, user, code, t) # NoErrors
    THEN validate_otp(O, user, code, t)
    ELSE validate_password(password)

----------------------------------------------------------------------------
(* SetPasswordByCode: the writes *)

(* user.set_password(password); user.save(update_fields=["password"]) *)
SavePassword(U, user, password) ==
    [U EXCEPT ![user].password = password]

(* Variant: a redeemed OTP is deleted *)
MarkUsed_DeletingRow(O, user, code) ==
    SelectSeq(O, LAMBDA otp : ~(otp.code = code /\ otp.user = user))

(* Variant: redeeming one OTP uses up every OTP of its owner *)
MarkUsed_AllOfOwner(O, user, code) ==
    [i \in DOMAIN O |->
        IF O[i].user = user THEN [O[i] EXCEPT !.is_used = TRUE] ELSE O[i]]

(* otp = OTP.objects.get(code=code, user=user); otp.is_used = True;        *)
(* otp.save(update_fields=["is_used"])                                     *)
MarkUsed(O, user, code) ==
    [i \in DOMAIN O |->
        IF i \in FindOTP(O, code, user)
        THEN [O[i] EXCEPT !.is_used = TRUE]
        ELSE O[i]]

(* account_events.customer_password_reset_event(user=user) *)
RecordPasswordReset(E, user) ==
    [E EXCEPT ![user] = @ + 1]

(* Variant: last_login is not written *)
SaveLastLogin_Skipped(U, user, t) == U

(* CreateTokenExtended.perform_mutation: user.last_login = timezone.now(); *)
(* user.save(update_fields=["last_login"])                                 *)
SaveLastLogin(U, user, t) ==
    [U EXCEPT ![user].last_login = <<t>>]

RedeemResponse(data, errors, tokens) ==
    [op |-> "SetPasswordByCode", data |-> data, errors |-> errors,
     tokens |-> tokens]

----------------------------------------------------------------------------
(* SetPasswordByCode as one request, run from its first line to its last *)

SetPasswordByCode(data) ==
    LET code == data.code
        password == data.password
        found == get_user(data.email)
    IN
    /\ IF found.errors # NoErrors
       THEN /\ response' = RedeemResponse(data, found.errors, NoTokens)
            /\ UNCHANGED <<users, otps, events>>
       ELSE LET user == found.user
                errors == CheckOTPAndPassword(otps, user, code, password, now)
            IN
            IF errors # NoErrors
            THEN /\ response' = RedeemResponse(data, errors, NoTokens)
                 /\ UNCHANGED <<users, otps, events>>
            ELSE LET saved == SavePassword(users, user, password)
                     session == cls_get_user(saved, data.email, password)
                 IN
                 /\ events' = RecordPasswordReset(events, user)
                 /\ otps' = MarkUsed(otps, user, code)
                 /\ IF session.errors # NoErrors
                    THEN /\ users' = saved
                         /\ response' = RedeemResponse(data, session.errors,
                                                       NoTokens)
                    ELSE /\ users' = SaveLastLogin(saved, session.user, now)
                         /\ response' = RedeemResponse(
                                            data, NoErrors,
                                            create_tokens(session.user))
    /\ UNCHANGED <<now, notified, inv>>

(* What the caller gets when a statement raises an exception that is no    *)
(* ValidationError: perform_mutation catches ValidationError alone, so the *)
(* exception leaves the mutation and no tokens are returned                *)
Unhandled(statement) == <<Error(None, statement, "unhandled")>>

(* The statements of SetPasswordByCode that write, in the order they run:  *)
(* lines 280-281, line 282, lines 284-286 and line 298                     *)
StatementNo ==
    [save_password |-> 1, password_reset_event |-> 2, mark_used |-> 3,
     create_token |-> 4]

Statements == DOMAIN StatementNo

(* Variant: the request runs in a transaction, and the exception rolls     *)
(* back what was written before it                                         *)
SetPasswordByCodeRaising_RolledBack(data, raises) ==
    LET found == get_user(data.email) IN
    /\ found.errors = NoErrors
    /\ CheckOTPAndPassword(otps, found.user, data.code, data.password, now)
          = NoErrors
    /\ events[found.user] < MaxOTPs
    /\ response' = RedeemResponse(data, Unhandled(raises), NoTokens)
    /\ UNCHANGED <<users, otps, events, now, notified, inv>>

(* SetPasswordByCode when the statement `raises` fails with an exception   *)
(* of the database or of the token service: the statements before it have  *)
(* been run and nothing undoes them (the mutation opens no transaction),   *)
(* it and the statements after it have no effect                           *)
SetPasswordByCodeRaising(data, raises) ==
    LET code == data.code
        password == data.password
        found == get_user(data.email)
        user == found.user
        ran(statement) == StatementNo[statement] < StatementNo[raises]
    IN
    /\ found.errors = NoErrors
    /\ CheckOTPAndPassword(otps, user, code, password, now) = NoErrors
    /\ events[user] < MaxOTPs     \* the event rows are kept bounded
    /\ users' = IF ran("save_password")
                THEN SavePassword(users, user, password)
                ELSE users
    /\ events' = IF ran("password_reset_event")
                 THEN RecordPasswordReset(events, user)
                 ELSE events
    /\ otps' = IF ran("mark_used") THEN MarkUsed(otps, user, code) ELSE otps
    /\ response' = RedeemResponse(data, Unhandled(raises), NoTokens)
    /\ UNCHANGED <<now, notified, inv>>

(* For the email of no account one call stands for all: get_user fails     *)
(* before the code and the password are looked at                          *)
RedeemArgs ==
    [email : UserEmails, code : Codes, password : Passwords]
        \cup [email : Emails \ UserEmails, code : {"1"}, password : {"NewP@ssw0rd1"}]

----------------------------------------------------------------------------
(* Time passes *)

Tick ==
    /\ response = NoResponse
    /\ now + TickMinutes <= MaxTime
    /\ now' = now + TickMinutes
    /\ UNCHANGED <<users, otps, notified, events, response, inv>>

----------------------------------------------------------------------------
(* The state after the plugin is installed: two accounts, no OTP *)

InitUsers ==
    [e \in UserEmails |->
        [password |-> OldPassword,
         last_login |-> <<>>,
         is_staff |-> (e = "b@shop"),
         is_active |-> (e = "a@shop")]]

Idle == [pc |-> "idle"]

Init ==
    /\ users = InitUsers
    /\ otps = <<>>
    /\ now = 0
    /\ notified = <<>>
    /\ events = [e \in UserEmails |-> 0]
    /\ response = NoResponse
    /\ inv = [r \in Requests |-> Idle]

(* Requests are served one after the other: the next one is taken up once *)
(* the response of the last has gone out to its caller                    *)
Recover ==
    /\ response = NoResponse
    /\ \E data \in RecoveryArgs : RequestPasswordRecovery(data)

Redeem ==
    /\ response = NoResponse
    /\ \E data \in RedeemArgs : SetPasswordByCode(data)

Respond ==
    /\ response # NoResponse
    /\ response' = NoResponse
    /\ UNCHANGED <<users, otps, now, notified, events, inv>>

Next == Recover \/ Redeem \/ Respond \/ Tick

Spec == Init /\ [][Next]_vars

----------------------------------------------------------------------------
(* The mutations served one after the other, where a statement of          *)
(* SetPasswordByCode may fail; the clock stands still                      *)

RedeemRaising ==
    /\ response = NoResponse
    /\ \E data \in RedeemArgs, raises \in Statements :
          SetPasswordByCodeRaising(data, raises)

FaultNext == Recover \/ Redeem \/ RedeemRaising \/ Respond

FaultSpec == Init /\ [][FaultNext]_vars

----------------------------------------------------------------------------
(* RequestPasswordRecovery called with every shape of redirect URL *)

UrlRecoveryArgs ==
    [email : {"a@shop"}, redirect_url : UrlTexts, channel : {None}]

UrlRecover ==
    /\ response = NoResponse
    /\ \E data \in UrlRecoveryArgs : RequestPasswordRecovery(data)

UrlNext == UrlRecover \/ Respond

UrlSpec == Init /\ [][UrlNext]_vars

----------------------------------------------------------------------------
(* SetPasswordByCode served concurrently: each request runs the same lines *)
(* as above, one database statement at a time, and nothing orders the      *)
(* statements of two requests (no transaction, no row lock)                *)

InFlight(pc, data, user) == [pc |-> pc, data |-> data, user |-> user]

Done(data, errors, tokens) ==
    [pc |-> "done", data |-> data,
     response |-> RedeemResponse(data, errors, tokens)]

(* Lines 290-278: get_user, validate_otp's SELECT and the password check *)
BeginRedeem(r, data) ==
    LET found == get_user(data.email) IN
    /\ inv[r].pc = "idle"
    /\ inv' = [inv EXCEPT ![r] =
          IF found.errors # NoErrors
          THEN Done(data, found.errors, NoTokens)
          ELSE LET errors == CheckOTPAndPassword(otps, found.user, data.code,
                                                 data.password, now)
               IN IF errors # NoErrors
                  THEN Done(data, errors, NoTokens)
                  ELSE InFlight("save_password", data, found.user)]
    /\ UNCHANGED <<users, otps, now, notified, events, response>>

(* Lines 280-281 *)
SavePasswordStep(r) ==
    /\ inv[r].pc = "save_password"
    /\ users' = SavePassword(users, inv[r].user, inv[r].data.password)
    /\ inv' = [inv EXCEPT ![r].pc = "password_reset_event"]
    /\ UNCHANGED <<otps, now, notified, events, response>>

(* Line 282 *)
PasswordResetEventStep(r) ==
    /\ inv[r].pc = "password_reset_event"
    /\ events' = RecordPasswordReset(events, inv[r].user)
    /\ inv' = [inv EXCEPT ![r].pc = "mark_used"]
    /\ UNCHANGED <<users, otps, now, notified, response>>

(* Variant: the OTP is marked used before the password is saved *)
MarkUsedStep_BeforeSave(r) ==
    /\ inv[r].pc = "save_password"
    /\ otps' = MarkUsed(otps, inv[r].user, inv[r].data.code)
    /\ inv' = [inv EXCEPT ![r].pc = "create_token"]
    /\ UNCHANGED <<users, now, notified, events, response>>

(* Lines 284-286 *)
MarkUsedStep(r) ==
    /\ inv[r].pc = "mark_used"
    /\ otps' = MarkUsed(otps, inv[r].user, inv[r].data.code)
    /\ inv' = [inv EXCEPT ![r].pc = "create_token"]
    /\ UNCHANGED <<users, now, notified, events, response>>

(* Line 298: the inherited perform_mutation, lines 123-137 *)
CreateTokenStep(r) ==
    LET session == cls_get_user(users, inv[r].data.email, inv[r].data.password)
    IN
    /\ inv[r].pc = "create_token"
    /\ IF session.errors # NoErrors
       THEN /\ users' = users
            /\ inv' = [inv EXCEPT ![r] =
                          Done(inv[r].data, session.errors, NoTokens)]
       ELSE /\ users' = SaveLastLogin(users, session.user, now)
            /\ inv' = [inv EXCEPT ![r] =
                          Done(inv[r].data, NoErrors,
                               create_tokens(session.user))]
    /\ UNCHANGED <<otps, now, notified, events, response>>

ConcRedeem ==
    \E r \in Requests :
        \/ \E data \in RedeemArgs : BeginRedeem(r, data)
        \/ SavePasswordStep(r)
        \/ PasswordResetEventStep(r)
        \/ MarkUsedStep(r)
        \/ CreateTokenStep(r)

ConcNext == Recover \/ Respond \/ ConcRedeem

ConcSpec == Init /\ [][ConcNext]_vars

----------------------------------------------------------------------------
(* Vocabulary of the properties, stated on the tables themselves *)

(* The rows stored for exactly this code and this owner *)
Stored(code, user) ==
    { i \in DOMAIN otps : otps[i].code = code /\ otps[i].user = user }

Unused(i) == otps[i].is_used = FALSE

InWindow(i) == now < otps[i].issued_at + ValidityMinutes

Redeemable(code, user) ==
    \E i \in Stored(code, user) : Unused(i) /\ InWindow(i)

(* The response is a failure and every error of it is InvalidOrExpiredCode *)
InvalidOrExpiredCode(resp) ==
    /\ resp.op = "SetPasswordByCode"
    /\ resp.errors # NoErrors
    /\ \A k \in DOMAIN resp.errors : resp.errors[k].code = "INVALID"
    /\ resp.tokens = NoTokens

Succeeded(resp) == resp.errors = NoErrors

(* The values the query string of a URL gives the parameter key *)
QueryValues(url, key) ==
    LET query == urlparse(url).query IN
    { query[k + 2] :
        k \in { j \in 1..(Len(query) - 2) :
                    /\ query[j] = key
                    /\ query[j + 1] = "="
                    /\ (j = 1 \/ query[j - 1] = "&") } }

(* The host of the URL is one the storefront allows *)
AllowedUrl(url) == \E host \in AllowedHosts : urlparse(url).netloc = <<host>>

(* The scheme of a URL as it is written, before the first ":" *)
SchemeText(url) == IF Len(url) >= 2 /\ url[2] = ":" THEN url[1] ELSE ""

(* The messages of CreateTokenExtended.get_user for an account that is    *)
(* not active: never logged in, and logged in before                       *)
AccountStatusMessages ==
    {"Account needs to be confirmed via email.", "Account inactive."}

(* The table O had row i never been stored *)
WithoutRow(O, i) ==
    [k \in 1..(Len(O) - 1) |-> IF k < i THEN O[k] ELSE O[k + 1]]

(* This step serves one request of the mutation op from start to end; the  *)
(* arguments it was called with are response'.data                         *)
Served(op) == response = NoResponse /\ response'.op = op

----------------------------------------------------------------------------
(* C1: two concurrent SetPasswordByCode requests with the same user, the   *)
(* same valid code and policy-compliant passwords never both succeed: one  *)
(* changes the password and the other fails with InvalidOrExpiredCode.     *)
C1_OneRedemptionPerOTP ==
    \A r1, r2 \in Requests :
        ( /\ r1 # r2
          /\ inv[r1].pc = "done"
          /\ inv[r2].pc = "done"
          /\ inv[r1].data.email = inv[r2].data.email
          /\ inv[r1].data.code = inv[r2].data.code
          /\ inv[r1].data.password \in GoodPasswords
          /\ inv[r2].data.password \in GoodPasswords )
        => ~(Succeeded(inv[r1].response) /\ Succeeded(inv[r2].response))

----------------------------------------------------------------------------
(* C2: a SetPasswordByCode request of an existing user with a stored code  *)
(* and a policy-compliant password goes through iff the OTP is unused and  *)
(* now < issued_at + 15 minutes; otherwise, and so from issued_at + 15     *)
(* minutes on whatever is_used says, it fails with InvalidOrExpiredCode.   *)
C2_ValidIffUnusedAndInWindow ==
    [][ LET data == response'.data IN
        ( /\ Served("SetPasswordByCode")
          /\ data.email \in UserEmails
          /\ data.password \in GoodPasswords
          /\ Stored(data.code, data.email) # {} )
        => /\ Succeeded(response') <=> Redeemable(data.code, data.email)
           /\ ~Redeemable(data.code, data.email)
                  => InvalidOrExpiredCode(response')
      ]_vars

(* An unused OTP was refused at exactly issued_at + 15 minutes *)
C2_Witness ==
    /\ InvalidOrExpiredCode(response)
    /\ response.data.password \in GoodPasswords
    /\ \E i \in Stored(response.data.code, response.data.email) :
            Unused(i) /\ otps[i].issued_at + ValidityMinutes = now

----------------------------------------------------------------------------
(* C3: once an OTP is marked used it stays used, and every later           *)
(* SetPasswordByCode request with that code and user fails with            *)
(* InvalidOrExpiredCode and leaves the password and last_login alone, also *)
(* inside the validity window and with another compliant password.         *)
C3_UsedCodeIsRefused ==
    [][ /\ \A i \in DOMAIN otps : ~Unused(i) => otps'[i].is_used
        /\ LET data == response'.data IN
           ( /\ Served("SetPasswordByCode")
             /\ data.email \in UserEmails
             /\ \E i \in Stored(data.code, data.email) : ~Unused(i) )
           => /\ InvalidOrExpiredCode(response')
              /\ users' = users
              /\ otps' = otps
      ]_vars

(* A used OTP that is still inside its window was refused *)
C3_Witness ==
    /\ InvalidOrExpiredCode(response)
    /\ response.data.password \in GoodPasswords
    /\ users[response.data.email].password # response.data.password
    /\ \E i \in Stored(response.data.code, response.data.email) :
            ~Unused(i) /\ InWindow(i)

----------------------------------------------------------------------------
(* C4: a RequestPasswordRecovery that succeeds adds exactly one OTP, owned *)
(* by the user of the email and unused, under a code no older OTP has, and *)
(* calls the notifier exactly once, with that code as the payload's token  *)
(* and as the code parameter of its reset_url; older OTPs are kept as they *)
(* are and none is handed out again.                                       *)
C4_OneNewOTPOneNotification ==
    [][ ( Served("RequestPasswordRecovery") /\ Succeeded(response') )
        => /\ Len(otps') = Len(otps) + 1
           /\ SubSeq(otps', 1, Len(otps)) = otps
           /\ Len(notified') = Len(notified) + 1
           /\ SubSeq(notified', 1, Len(notified)) = notified
           /\ LET new == otps'[Len(otps')]
                  sent == notified'[Len(notified')]
              IN /\ new.user = response'.data.email
                 /\ new.user \in UserEmails
                 /\ new.is_used = FALSE
                 /\ \A i \in DOMAIN otps : otps[i].code # new.code
                 /\ sent.payload.token = new.code
                 /\ QueryValues(sent.payload.reset_url, "code") = {new.code}
      ]_vars

(* A second OTP was issued to a user whose first is still redeemable *)
C4_Witness ==
    /\ response.op = "RequestPasswordRecovery"
    /\ Succeeded(response)
    /\ Len(otps) >= 2
    /\ otps[Len(otps)].user = response.data.email
    /\ \E i \in 1..(Len(otps) - 1) :
          otps[i].user = response.data.email /\ Unused(i) /\ InWindow(i)
    /\ Len(notified) = Len(otps)

----------------------------------------------------------------------------
(* C5: a RequestPasswordRecovery that fails (unknown email, unresolvable   *)
(* channel or refused redirect URL) creates no OTP and does not call the   *)
(* notifier.                                                               *)
C5_FailedRecoveryChangesNothing ==
    [][ ( Served("RequestPasswordRecovery") /\ ~Succeeded(response') )
        => /\ otps' = otps
           /\ notified' = notified
           /\ users' = users
      ]_vars

(* The last of the three checks, the redirect URL, refused a request whose *)
(* user and channel were fine                                              *)
C5_Witness ==
    /\ response.op = "RequestPasswordRecovery"
    /\ response.data.email \in UserEmails
    /\ response.errors # NoErrors
    /\ response.errors[1].field = "redirect_url"
    /\ otps = <<>>
    /\ notified = <<>>

----------------------------------------------------------------------------
(* C6: SetPasswordByCode with a redeemable OTP and a password the policy   *)
(* rejects fails with the policy's error under the password field, issues  *)
(* no tokens and writes nothing: the password is unchanged and the OTP is  *)
(* still unused, so the code can be redeemed later.                        *)
C6_RejectedPasswordChangesNothing ==
    [][ LET data == response'.data IN
        ( /\ Served("SetPasswordByCode")
          /\ data.email \in UserEmails
          /\ Redeemable(data.code, data.email)
          /\ data.password \notin GoodPasswords )
        => /\ response'.errors # NoErrors
           /\ \A k \in DOMAIN response'.errors :
                 response'.errors[k].field = "password"
           /\ response'.tokens = NoTokens
           /\ users' = users
           /\ otps' = otps
           /\ events' = events
           /\ now' = now
      ]_vars

(* A rejected password left a redeemable OTP redeemable *)
C6_Witness ==
    /\ response.op = "SetPasswordByCode"
    /\ response.errors # NoErrors
    /\ response.errors[1].field = "password"
    /\ response.data.email \in UserEmails
    /\ Redeemable(response.data.code, response.data.email)

----------------------------------------------------------------------------
(* C7: SetPasswordByCode answers with the one error code INVALID when no   *)
(* OTP is stored for (code, user), when the OTP is used and when it is     *)
(* expired.                                                                *)
C7_OneErrorCode ==
    [][ LET data == response'.data
            rows == Stored(data.code, data.email)
        IN
        ( Served("SetPasswordByCode") /\ data.email \in UserEmails )
        => /\ rows = {} => InvalidOrExpiredCode(response')
           /\ (\E i \in rows : ~Unused(i)) => InvalidOrExpiredCode(response')
           /\ (\E i \in rows : ~InWindow(i)) => InvalidOrExpiredCode(response')
      ]_vars

(* An unused OTP past its window was refused with INVALID *)
C7_Witness ==
    /\ InvalidOrExpiredCode(response)
    /\ \E i \in Stored(response.data.code, response.data.email) :
          Unused(i) /\ otps[i].issued_at + ValidityMinutes < now

----------------------------------------------------------------------------
(* C8: the errors SetPasswordByCode returns for a used OTP of the user are *)
(* the errors it returns when no OTP is stored for (code, user): code,     *)
(* field and message are the same whether the row is there, used, or is    *)
(* not there at all.                                                       *)
C8_UsedLooksLikeMissing ==
    \A user \in UserEmails, code \in Codes :
        \A i \in Stored(code, user) :
            ~Unused(i)
            => validate_otp(otps, user, code, now)
                   = validate_otp(WithoutRow(otps, i), user, code, now)

----------------------------------------------------------------------------
(* C9: SetPasswordByCode with a redeemable OTP and a policy-compliant      *)
(* password succeeds: it returns access, refresh and CSRF tokens of the    *)
(* user, and afterwards the OTP is used, the user's password is the new    *)
(* password and last_login is the time of the call.                        *)
C9_SuccessfulRedemption ==
    [][ LET data == response'.data IN
        ( /\ Served("SetPasswordByCode")
          /\ data.email \in UserEmails
          /\ Redeemable(data.code, data.email)
          /\ data.password \in GoodPasswords )
        => /\ Succeeded(response')
           /\ response'.tokens.token = <<"access", data.email>>
           /\ response'.tokens.refresh_token = <<"refresh", data.email>>
           /\ response'.tokens.csrf_token # NoToken
           /\ \A i \in Stored(data.code, data.email) : otps'[i].is_used
           /\ users'[data.email].password = data.password
           /\ users'[data.email].last_login = <<now>>
      ]_vars

(* A redemption some time after the plugin was installed went through *)
C9_Witness ==
    /\ response.op = "SetPasswordByCode"
    /\ Succeeded(response)
    /\ response.tokens # NoTokens
    /\ now > 0
    /\ users[response.data.email].last_login = <<now>>
    /\ users[response.data.email].password = response.data.password
    /\ \E i \in Stored(response.data.code, response.data.email) : ~Unused(i)

----------------------------------------------------------------------------
(* C10: SetPasswordByCode with the email of one user and a code stored     *)
(* only for another user fails with InvalidOrExpiredCode, changes no       *)
(* password and leaves the other user's OTP as it was, so its owner can    *)
(* still redeem it.                                                        *)
C10_CodeBoundToOwner ==
    [][ LET data == response'.data IN
        ( /\ Served("SetPasswordByCode")
          /\ data.email \in UserEmails
          /\ Stored(data.code, data.email) = {}
          /\ \E i \in DOMAIN otps : otps[i].code = data.code )
        => /\ InvalidOrExpiredCode(response')
           /\ users' = users
           /\ otps' = otps
           /\ now' = now
      ]_vars

(* A user was refused the redeemable code of another user *)
C10_Witness ==
    /\ InvalidOrExpiredCode(response)
    /\ response.data.password \in GoodPasswords
    /\ \E i \in DOMAIN otps :
          /\ otps[i].code = response.data.code
          /\ otps[i].user # response.data.email
          /\ Redeemable(otps[i].code, otps[i].user)

----------------------------------------------------------------------------
(* C11: RequestPasswordRecovery for a staff user, called without a channel *)
(* argument and with an allowed redirect URL, succeeds without a channel   *)
(* error, creates one OTP and notifies once with the staff password-reset  *)
(* event; a staff request has its channel validated only when one is given.*)
C11_StaffMayOmitChannel ==
    [][ LET data == response'.data IN
        ( /\ Served("RequestPasswordRecovery")
          /\ data.email \in UserEmails
          /\ users[data.email].is_staff
          /\ "channel" \notin DOMAIN data
          /\ AllowedUrl(data.redirect_url) )
        => /\ Succeeded(response')
           /\ Len(otps') = Len(otps) + 1
           /\ Len(notified') = Len(notified) + 1
           /\ notified'[Len(notified')].event = "ACCOUNT_STAFF_RESET_PASSWORD"
      ]_vars

----------------------------------------------------------------------------
(* C12 as stated: the reset_url handed to the notifier is the redirect URL *)
(* with its query replaced by the one parameter code=<code of the new      *)
(* OTP>; scheme, host, path and fragment are the same text as in the       *)
(* redirect URL.                                                           *)
C12_ResetUrlKeepsComponents ==
    [][ ( Served("RequestPasswordRecovery") /\ Succeeded(response') )
        => LET given == response'.data.redirect_url
               sent == notified'[Len(notified')].payload.reset_url
               new == otps'[Len(otps')]
           IN /\ urlparse(sent).query = <<"code", "=", new.code>>
              /\ SchemeText(sent) = SchemeText(given)
              /\ urlparse(sent).netloc = urlparse(given).netloc
              /\ urlparse(sent).path = urlparse(given).path
              /\ urlparse(sent).fragment = urlparse(given).fragment
      ]_vars

(* C12, amended: the reset_url handed to the notifier is the redirect URL  *)
(* with its query replaced by the one parameter code=<code of the new      *)
(* OTP>; host, path and fragment are the same text as in the redirect URL  *)
(* and the scheme is the redirect URL's scheme in lower case.              *)
C12_ResetUrlKeepsComponentsLowerScheme ==
    [][ ( Served("RequestPasswordRecovery") /\ Succeeded(response') )
        => LET given == response'.data.redirect_url
               sent == notified'[Len(notified')].payload.reset_url
               new == otps'[Len(otps')]
           IN /\ urlparse(sent).query = <<"code", "=", new.code>>
              /\ QueryValues(sent, "ref") = {}
              /\ SchemeText(sent) = Lower(SchemeText(given))
              /\ urlparse(sent).netloc = urlparse(given).netloc
              /\ urlparse(sent).path = urlparse(given).path
              /\ urlparse(sent).fragment = urlparse(given).fragment
      ]_vars

(* A redirect URL written with an upper-case scheme, a query and a         *)
(* fragment of its own was turned into the reset URL of a notification     *)
C12_Witness ==
    /\ response.op = "RequestPasswordRecovery"
    /\ Succeeded(response)
    /\ response.data.redirect_url
          = <<"HTTPS", ":", "//", "shop.example", "/", "reset",
              "?", "ref", "=", "mail", "#", "form", "?", "x">>
    /\ notified # <<>>
    /\ notified[Len(notified)].payload.reset_url
          = <<"https", ":", "//", "shop.example", "/", "reset",
              "?", "code", "=", otps[Len(otps)].code, "#", "form", "?", "x">>

----------------------------------------------------------------------------
(* C13: every SetPasswordByCode request runs its steps in this order: OTP  *)
(* validation and the password-policy check (which write nothing), the     *)
(* password saved, the password-reset event, the OTP marked used, then the *)
(* tokens issued and last_login saved. No request marks the OTP used       *)
(* before it has saved the password, and none is given tokens before the   *)
(* OTP is marked used.                                                     *)
C13_StepsInOrder ==
    [][ \A r \in Requests :
          /\ inv[r].pc \in {"password_reset_event", "mark_used", "create_token"}
                => users[inv[r].user].password # OldPassword
          /\ inv[r].pc = "create_token"
                => \A i \in Stored(inv[r].data.code, inv[r].user) : ~Unused(i)
          /\ inv'[r] # inv[r] =>
               LET data == inv'[r].data
                   user == data.email
               IN
               CASE inv[r].pc = "idle" ->
                      /\ inv'[r].pc \in {"save_password", "done"}
                      /\ inv'[r].pc = "done" => ~Succeeded(inv'[r].response)
                      /\ (user \in UserEmails /\ ~Redeemable(data.code, user))
                            => InvalidOrExpiredCode(inv'[r].response)
                      /\ inv'[r].pc = "save_password"
                            => /\ Redeemable(data.code, user)
                               /\ data.password \in GoodPasswords
                      /\ UNCHANGED <<users, otps, events>>
                 [] inv[r].pc = "save_password" ->
                      /\ inv'[r].pc = "password_reset_event"
                      /\ users'[user].password = data.password
                      /\ users'[user].last_login = users[user].last_login
                      /\ UNCHANGED <<otps, events>>
                 [] inv[r].pc = "password_reset_event" ->
                      /\ inv'[r].pc = "mark_used"
                      /\ events'[user] = events[user] + 1
                      /\ UNCHANGED <<users, otps>>
                 [] inv[r].pc = "mark_used" ->
                      /\ inv'[r].pc = "create_token"
                      /\ \A i \in Stored(data.code, user) : otps'[i].is_used
                      /\ UNCHANGED <<users, events>>
                 [] inv[r].pc = "create_token" ->
                      /\ inv'[r].pc = "done"
                      /\ Succeeded(inv'[r].response)
                      /\ inv'[r].response.tokens # NoTokens
                      /\ users'[user].last_login = <<now>>
                      /\ users'[user].password = users[user].password
                      /\ UNCHANGED <<otps, events>>
                 [] OTHER -> FALSE
      ]_vars

(* A request has saved the password and recorded the event, and is about   *)
(* to mark the OTP, which is still unused                                  *)
C13_Witness ==
    \E r \in Requests :
        /\ inv[r].pc = "mark_used"
        /\ users[inv[r].user].password = inv[r].data.password
        /\ events[inv[r].user] >= 1
        /\ \E i \in Stored(inv[r].data.code, inv[r].user) : Unused(i)

----------------------------------------------------------------------------
(* C14: a SetPasswordByCode request that fails before the tokens are       *)
(* issued (unknown user, OTP validation, password policy, or a failure of  *)
(* the password-reset event or of marking the OTP used) leaves every       *)
(* password, every last_login and every OTP as they were before the call;  *)
(* only a failure of the token step may leave something written.           *)
C14_FailedRedemptionChangesNothing ==
    [][ ( /\ Served("SetPasswordByCode")
          /\ ~Succeeded(response')
          /\ response'.errors # Unhandled("create_token") )
        => /\ users' = users
           /\ otps' = otps
      ]_vars

----------------------------------------------------------------------------
(* C15: when the token step of SetPasswordByCode fails after the OTP was   *)
(* marked used, the password is the new one, the OTP is used and stays so, *)
(* last_login is not written and no tokens are returned; a later           *)
(* SetPasswordByCode with the same code fails with InvalidOrExpiredCode    *)
(* and writes nothing.                                                     *)
C15_FailedSessionConsumesOTP ==
    [][ LET data == response'.data IN
        /\ ( /\ Served("SetPasswordByCode")
             /\ response'.errors = Unhandled("create_token") )
           => /\ users'[data.email].password = data.password
              /\ Stored(data.code, data.email) # {}
              /\ \A i \in Stored(data.code, data.email) : otps'[i].is_used
              /\ users'[data.email].last_login = users[data.email].last_login
              /\ response'.tokens = NoTokens
        /\ \A i \in DOMAIN otps : ~Unused(i) => otps'[i].is_used
        /\ ( /\ Served("SetPasswordByCode")
             /\ data.email \in UserEmails
             /\ \E i \in Stored(data.code, data.email) : ~Unused(i) )
           => /\ InvalidOrExpiredCode(response')
              /\ users' = users
              /\ otps' = otps
      ]_vars

(* The code of a redemption whose token step failed was tried again and    *)
(* refused: the OTP is used and the password is new, but the user never    *)
(* logged in                                                               *)
C15_Witness ==
    /\ InvalidOrExpiredCode(response)
    /\ response.data.password \in GoodPasswords
    /\ users[response.data.email].password \in GoodPasswords
    /\ users[response.data.email].last_login = <<>>
    /\ \E i \in Stored(response.data.code, response.data.email) : ~Unused(i)

----------------------------------------------------------------------------
(* C16: OTP rows are append-only apart from is_used: no step removes a row *)
(* or changes its code, owner or issued_at; RequestPasswordRecovery leaves *)
(* every row there is as it is; is_used only goes from false to true, only *)
(* in SetPasswordByCode, and never back.                                   *)
C16_OTPsAppendOnly ==
    [][ /\ Len(otps') >= Len(otps)
        /\ \A i \in DOMAIN otps :
              /\ otps'[i].code = otps[i].code
              /\ otps'[i].user = otps[i].user
              /\ otps'[i].issued_at = otps[i].issued_at
              /\ otps[i].is_used => otps'[i].is_used
              /\ otps'[i] # otps[i] => Served("SetPasswordByCode")
        /\ Served("RequestPasswordRecovery")
              => SubSeq(otps', 1, Len(otps)) = otps
      ]_vars

(* An OTP was issued after another one had been redeemed, and the redeemed *)
(* one is still stored as used                                             *)
C16_Witness ==
    /\ response.op = "RequestPasswordRecovery"
    /\ Succeeded(response)
    /\ Len(otps) >= 2
    /\ Unused(Len(otps))
    /\ \E i \in 1..(Len(otps) - 1) : ~Unused(i)

----------------------------------------------------------------------------
(* C17: a successful SetPasswordByCode sets is_used on exactly the one OTP *)
(* stored for the submitted (code, user) and leaves every other OTP as it  *)
(* was; another OTP of the same user that was unused and unexpired before  *)
(* is unused and unexpired after, so it can still be redeemed.             *)
C17_OnlyTheRedeemedOTPChanges ==
    [][ LET data == response'.data
            rows == Stored(data.code, data.email)
        IN
        ( Served("SetPasswordByCode") /\ Succeeded(response') )
        => /\ Len(otps') = Len(otps)
           /\ Cardinality(rows) = 1
           /\ \A i \in rows : Unused(i) /\ otps'[i].is_used
           /\ \A i \in DOMAIN otps \ rows : otps'[i] = otps[i]
           /\ \A i \in DOMAIN otps \ rows :
                 ( otps[i].user = data.email /\ Unused(i) /\ InWindow(i) )
                 => /\ otps'[i].is_used = FALSE
                    /\ now' < otps'[i].issued_at + ValidityMinutes
      ]_vars

(* One of two redeemable OTPs of a user was redeemed, the other one is     *)
(* still redeemable                                                        *)
C17_Witness ==
    /\ response.op = "SetPasswordByCode"
    /\ Succeeded(response)
    /\ \E i \in Stored(response.data.code, response.data.email) : ~Unused(i)
    /\ \E j \in DOMAIN otps :
          /\ otps[j].user = response.data.email
          /\ otps[j].code # response.data.code
          /\ Redeemable(otps[j].code, otps[j].user)

----------------------------------------------------------------------------
(* C18: tokens are returned, a password is changed and last_login is       *)
(* written only by a SetPasswordByCode request for which an OTP is stored  *)
(* under exactly the submitted (code, user), unused and unexpired when the *)
(* request validates it, and only for that user; RequestPasswordRecovery   *)
(* never does any of it.                                                   *)
C18_NoSessionWithoutValidOTP ==
    [][ LET data == response'.data IN
        /\ ( response' # response /\ response'.tokens # NoTokens )
           => /\ Served("SetPasswordByCode")
              /\ data.email \in UserEmails
              /\ Redeemable(data.code, data.email)
              /\ response'.tokens.token = <<"access", data.email>>
        /\ \A user \in UserEmails :
              users'[user] # users[user]
              => /\ Served("SetPasswordByCode")
                 /\ data.email = user
                 /\ Redeemable(data.code, user)
      ]_vars

(* A user's password was changed and tokens were returned for the second   *)
(* OTP issued, while the first is still unused                             *)
C18_Witness ==
    /\ response.op = "SetPasswordByCode"
    /\ response.tokens # NoTokens
    /\ users[response.data.email].password = response.data.password
    /\ Len(otps) = 2
    /\ Unused(1)
    /\ Stored(response.data.code, response.data.email) = {2}

----------------------------------------------------------------------------
(* C19: the outcome of SetPasswordByCode does not depend on is_active or   *)
(* last_login: it succeeds exactly when the user exists, the OTP is        *)
(* redeemable and the password passes the policy; an inactive user with a  *)
(* valid OTP gets the password changed and tokens returned, and no         *)
(* response carries the errors for an unconfirmed or inactive account.     *)
C19_AccountStatusIsNotChecked ==
    [][ LET data == response'.data IN
        Served("SetPasswordByCode")
        => /\ Succeeded(response')
                <=> /\ data.email \in UserEmails
                    /\ Redeemable(data.code, data.email)
                    /\ data.password \in GoodPasswords
           /\ \A k \in DOMAIN response'.errors :
                 response'.errors[k].message \notin AccountStatusMessages
           /\ ( /\ data.email \in UserEmails
                /\ ~users[data.email].is_active
                /\ Redeemable(data.code, data.email)
                /\ data.password \in GoodPasswords )
              => /\ users'[data.email].password = data.password
                 /\ response'.tokens.token = <<"access", data.email>>
                 /\ response'.tokens.refresh_token = <<"refresh", data.email>>
                 /\ ~users'[data.email].is_active
      ]_vars

(* An inactive user who had logged in before redeemed a second OTP and was *)
(* given tokens; the first redemption was made without any login           *)
C19_Witness ==
    /\ response.op = "SetPasswordByCode"
    /\ Succeeded(response)
    /\ response.tokens # NoTokens
    /\ ~users[response.data.email].is_active
    /\ Cardinality({ i \in DOMAIN otps :
                        otps[i].user = response.data.email /\ ~Unused(i) }) = 2

====
